---------------------------- MODULE Spec2Model ----------------------------
(***************************************************************************)
(* A model of netcdfpp.hpp: the object layer (FileID, Dimension, Variable, *)
(* Group, File) over the NetCDF C library.  The library is the environment *)
(* of the header: it is modelled as one file on disk with at most one open *)
(* ncid, a define/data mode, a dimension table, a variable table and the   *)
(* cells of every variable.  Every method of the header is one action that *)
(* performs the method's library calls in the order of the code and stops  *)
(* at the first exception.  The library calls of the last method, with the *)
(* code each returned, are kept in `last'.  A run starts with no file, or  *)
(* with the File that create_test_file of the tests returns.               *)
(*                                                                         *)
(* Ids are 1-based here (the library's are 0-based); ncid 0 is the value   *)
(* of FileID::id before a create or open has stored one.                   *)
(*                                                                         *)
(* SpecPP is a second specification, of the File class of netcdf++.h,      *)
(* over the same library.                                                  *)
(***************************************************************************)
EXTENDS Integers, Sequences, FiniteSets, TLC

\* ------------------------------------------------------------- bounds ----
MaxOps     == 3   \* method calls in one run
MaxLen     == 2   \* largest extent of an axis
MaxUVars   == 1   \* Variable objects the caller holds outside the File
MaxHandles == 2   \* FileID objects alive or remembered at a time
MaxFaults  == 1   \* library failures of the library's own in one run

FixedNames == {"x"}                 \* names given to add_dimension(name, size)
UnlNames   == {"t"}                 \* names given to add_dimension(name)
DimNames   == FixedNames \cup UnlNames
VarNames   == {"v"}
GroupNames == {"g1", "g2"}          \* names given to add_group
ElemTypes  == {"Int", "Float"}      \* the TypeMap<T> specialisations used
Bases      == {10, 20}              \* a written buffer holds base, base+1, ...
DimLists   == {<<>>, <<"x">>, <<"t">>, <<"t", "x">>}
CreationModes == {"Clobber", "NoClobber"}
OpenModes  == {"Write", "Share", "WriteShare"}

Fill       == 0    \* the value of a cell never written
Blank      == -1   \* the caller's read buffer before the read
NoFile     == [none |-> TRUE]
NoVar      == [none |-> TRUE]

VARIABLES
  store,    \* the library: the file on disk and its open ncid
  handles,  \* the FileID objects
  file,     \* the caller's File object, or NoFile
  uvars,    \* the caller's Variable objects
  pc,       \* "running", "terminated" (std::terminate) or "crashed"
  last,     \* the last method: its name, outcome and library calls
  nops,     \* method calls made
  nfaults   \* library failures met that were the library's own

vars == <<store, handles, file, uvars, pc, last, nops, nfaults>>

Handles == 1..MaxHandles
USlots  == 1..MaxUVars

\* The counters of the model count 0, 1, many.
Inc(n) == IF n < 2 THEN n + 1 ELSE n

RECURSIVE Prod(_)
Prod(s) == IF s = <<>> THEN 1 ELSE Head(s) * Prod(Tail(s))

\* ------------------------------------------------------ the library ----
\* One library call of a method: the primitive, the ncid given, the code
\* returned, and the mode the addressed file was in ("none": no such file).
Call(prim, st, id, rc) ==
  [prim |-> prim, id |-> id, rc |-> rc,
   mode |-> IF id = 1 /\ st.open THEN st.mode ELSE "none"]

ValidId(st, id) == id = 1 /\ st.open

EmptyDisk ==
  [exists |-> FALSE, open |-> FALSE, mode |-> "data", writable |-> FALSE,
   dims |-> <<>>, vars |-> <<>>, data |-> <<>>, grps |-> <<>>]

\* nc_create: a new ncid (the lowest free one, 1) on an empty file in define
\* mode; NC_EEXIST under NoClobber when the path exists.
NcCreate(st, mode, fail) ==
  IF mode = "NoClobber" /\ st.exists THEN [st |-> st, rc |-> "NC_EEXIST", id |-> 0]
  ELSE IF fail THEN [st |-> st, rc |-> "NC_EIO", id |-> 0]
  ELSE [st |-> [EmptyDisk EXCEPT !.exists = TRUE, !.open = TRUE,
                                 !.mode = "define", !.writable = TRUE],
        rc |-> "NC_NOERR", id |-> 1]

\* nc_open: a new ncid on the existing file, in data mode.
NcOpen(st, mode, fail) ==
  IF ~st.exists THEN [st |-> st, rc |-> "NC_ENOENT", id |-> 0]
  ELSE IF fail THEN [st |-> st, rc |-> "NC_EIO", id |-> 0]
  ELSE [st |-> [st EXCEPT !.open = TRUE, !.mode = "data",
                          !.writable = (mode \in {"Write", "WriteShare"})],
        rc |-> "NC_NOERR", id |-> 1]

\* nc_close: releases the ncid; a failure leaves it in the library's list.
NcClose(st, id, fail) ==
  IF ~ValidId(st, id) THEN [st |-> st, rc |-> "NC_EBADID"]
  ELSE IF fail THEN [st |-> st, rc |-> "NC_EIO"]
  ELSE [st |-> [st EXCEPT !.open = FALSE], rc |-> "NC_NOERR"]

\* nc_redef: enter define mode.
NcRedef(st, id, fail) ==
  IF ~ValidId(st, id) THEN [st |-> st, rc |-> "NC_EBADID"]
  ELSE IF st.mode = "define" THEN [st |-> st, rc |-> "NC_EINDEFINE"]
  ELSE IF ~st.writable THEN [st |-> st, rc |-> "NC_EPERM"]
  ELSE IF fail THEN [st |-> st, rc |-> "NC_EIO"]
  ELSE [st |-> [st EXCEPT !.mode = "define"], rc |-> "NC_NOERR"]

\* nc_enddef: leave define mode.
NcEnddef(st, id, fail) ==
  IF ~ValidId(st, id) THEN [st |-> st, rc |-> "NC_EBADID"]
  ELSE IF st.mode = "data" THEN [st |-> st, rc |-> "NC_ENOTINDEFINE"]
  ELSE IF fail THEN [st |-> st, rc |-> "NC_EIO"]
  ELSE [st |-> [st EXCEPT !.mode = "data"], rc |-> "NC_NOERR"]

\* nc_sync: flush.
NcSync(st, id, fail) ==
  IF ~ValidId(st, id) THEN [st |-> st, rc |-> "NC_EBADID"]
  ELSE IF st.mode = "define" THEN [st |-> st, rc |-> "NC_EINDEFINE"]
  ELSE IF fail THEN [st |-> st, rc |-> "NC_EIO"]
  ELSE [st |-> st, rc |-> "NC_NOERR"]

DimIdOf(st, name) == CHOOSE i \in 1..Len(st.dims) : st.dims[i].name = name
HasDimNamed(st, name) == \E i \in 1..Len(st.dims) : st.dims[i].name = name
HasVarNamed(st, name) == \E i \in 1..Len(st.vars) : st.vars[i].name = name

\* nc_def_dim: len = 0 is NC_UNLIMITED.
NcDefDim(st, id, name, len, fail) ==
  IF ~ValidId(st, id) THEN [st |-> st, rc |-> "NC_EBADID", id |-> 0]
  ELSE IF st.mode # "define" THEN [st |-> st, rc |-> "NC_ENOTINDEFINE", id |-> 0]
  ELSE IF HasDimNamed(st, name) THEN [st |-> st, rc |-> "NC_ENAMEINUSE", id |-> 0]
  ELSE IF fail THEN [st |-> st, rc |-> "NC_EIO", id |-> 0]
  ELSE [st |-> [st EXCEPT !.dims = Append(@, [name |-> name, len |-> len,
                                              unlimited |-> (len = 0)])],
        rc |-> "NC_NOERR", id |-> Len(st.dims) + 1]

Coords(rank) == [1..rank -> 0..(MaxLen - 1)]

\* nc_def_var: the new variable's cells hold the fill value.
NcDefVar(st, id, name, type, dimids, fail) ==
  IF ~ValidId(st, id) THEN [st |-> st, rc |-> "NC_EBADID", id |-> 0]
  ELSE IF st.mode # "define" THEN [st |-> st, rc |-> "NC_ENOTINDEFINE", id |-> 0]
  ELSE IF HasVarNamed(st, name) THEN [st |-> st, rc |-> "NC_ENAMEINUSE", id |-> 0]
  ELSE IF \E i \in 1..Len(dimids) : dimids[i] \notin 1..Len(st.dims)
    THEN [st |-> st, rc |-> "NC_EBADDIM", id |-> 0]
  ELSE IF fail THEN [st |-> st, rc |-> "NC_EIO", id |-> 0]
  ELSE [st |-> [st EXCEPT
                  !.vars = Append(@, [name |-> name, type |-> type, dimids |-> dimids]),
                  !.data = Append(@, [c \in Coords(Len(dimids)) |-> Fill])],
        rc |-> "NC_NOERR", id |-> Len(st.vars) + 1]

\* The cells of a hyperslab, and the place of a cell in the row-major buffer.
Slab(starts, counts) ==
  {c \in Coords(Len(starts)) :
     \A i \in 1..Len(starts) : starts[i] <= c[i] /\ c[i] < starts[i] + counts[i]}

RECURSIVE Pos(_, _, _, _)
Pos(c, starts, counts, i) ==
  IF i > Len(starts) THEN 0
  ELSE (c[i] - starts[i]) * Prod(SubSeq(counts, i + 1, Len(counts)))
       + Pos(c, starts, counts, i + 1)

\* The extent of axis i of variable v: a fixed length, or the records written.
Extent(st, v, i) == st.dims[st.vars[v].dimids[i]].len
AxisUnlimited(st, v, i) == st.dims[st.vars[v].dimids[i]].unlimited

\* nc_put_vara_<T>: write the hyperslab; an unlimited axis grows.
NcPutVara(st, id, v, starts, counts, data, fail) ==
  IF ~ValidId(st, id) THEN [st |-> st, rc |-> "NC_EBADID"]
  ELSE IF v \notin 1..Len(st.vars) THEN [st |-> st, rc |-> "NC_ENOTVAR"]
  ELSE IF ~st.writable THEN [st |-> st, rc |-> "NC_EPERM"]
  ELSE IF st.mode = "define" THEN [st |-> st, rc |-> "NC_EINDEFINE"]
  ELSE IF \E i \in 1..Len(starts) :
            ~AxisUnlimited(st, v, i) /\ starts[i] + counts[i] > Extent(st, v, i)
    THEN [st |-> st, rc |-> "NC_EEDGE"]
  ELSE IF fail THEN [st |-> st, rc |-> "NC_EIO"]
  ELSE [st |-> [st EXCEPT
           !.data[v] = [c \in Coords(Len(starts)) |->
                          IF c \in Slab(starts, counts)
                          THEN data[Pos(c, starts, counts, 1) + 1] ELSE @[c]],
           !.dims = [d \in 1..Len(st.dims) |->
                       IF st.dims[d].unlimited
                          /\ \E i \in 1..Len(starts) :
                               /\ st.vars[v].dimids[i] = d
                               /\ starts[i] + counts[i] > st.dims[d].len
                       THEN [st.dims[d] EXCEPT !.len =
                               CHOOSE m \in 0..MaxLen :
                                 /\ \E i \in 1..Len(starts) :
                                      st.vars[v].dimids[i] = d /\ m = starts[i] + counts[i]
                                 /\ \A i \in 1..Len(starts) :
                                      st.vars[v].dimids[i] = d => starts[i] + counts[i] <= m]
                       ELSE st.dims[d]]],
        rc |-> "NC_NOERR"]

\* nc_get_vara_<T>: read the hyperslab into the caller's buffer.
NcGetVara(st, id, v, starts, counts, buf, fail) ==
  IF ~ValidId(st, id) THEN [buf |-> buf, rc |-> "NC_EBADID"]
  ELSE IF v \notin 1..Len(st.vars) THEN [buf |-> buf, rc |-> "NC_ENOTVAR"]
  ELSE IF st.mode = "define" THEN [buf |-> buf, rc |-> "NC_EINDEFINE"]
  ELSE IF \E i \in 1..Len(starts) : starts[i] + counts[i] > Extent(st, v, i)
    THEN [buf |-> buf, rc |-> "NC_EEDGE"]
  ELSE IF fail THEN [buf |-> buf, rc |-> "NC_EIO"]
  ELSE [buf |-> [k \in 1..Prod(counts) |->
                   LET c == CHOOSE c \in Slab(starts, counts) :
                              Pos(c, starts, counts, 1) + 1 = k
                   IN st.data[v][c]],
        rc |-> "NC_NOERR"]


\* nc_put_var_<T>: write the whole variable, every axis at its extent, from
\* the caller's buffer.  Where the buffer is shorter than the variable the
\* library reads behind it; those elements are written as Blank.
NcPutVar(st, id, v, data, fail) ==
  IF ~ValidId(st, id) THEN [st |-> st, rc |-> "NC_EBADID"]
  ELSE IF v \notin 1..Len(st.vars) THEN [st |-> st, rc |-> "NC_ENOTVAR"]
  ELSE IF ~st.writable THEN [st |-> st, rc |-> "NC_EPERM"]
  ELSE IF st.mode = "define" THEN [st |-> st, rc |-> "NC_EINDEFINE"]
  ELSE IF fail THEN [st |-> st, rc |-> "NC_EIO"]
  ELSE LET rank   == Len(st.vars[v].dimids)
           starts == [i \in 1..rank |-> 0]
           counts == [i \in 1..rank |-> Extent(st, v, i)]
           all    == [i \in 1..Prod(counts) |->
                        IF i <= Len(data) THEN data[i] ELSE Blank]
       IN [st |-> [st EXCEPT
                     !.data[v] = [c \in Coords(rank) |->
                                    IF c \in Slab(starts, counts)
                                    THEN all[Pos(c, starts, counts, 1) + 1] ELSE @[c]]],
           rc |-> "NC_NOERR"]

\* The child groups of group `parent' of the file (0: the root group).
ChildrenOf(st, parent) ==
  {st.grps[i].name : i \in {j \in 1..Len(st.grps) : st.grps[j].parent = parent}}

\* nc_def_grp: a new group under `parent'.
NcDefGrp(st, id, parent, name, fail) ==
  IF ~ValidId(st, id) THEN [st |-> st, rc |-> "NC_EBADID", id |-> 0]
  ELSE IF st.mode # "define" THEN [st |-> st, rc |-> "NC_ENOTINDEFINE", id |-> 0]
  ELSE IF name \in ChildrenOf(st, parent) THEN [st |-> st, rc |-> "NC_ENAMEINUSE", id |-> 0]
  ELSE IF fail THEN [st |-> st, rc |-> "NC_EIO", id |-> 0]
  ELSE [st |-> [st EXCEPT !.grps = Append(@, [name |-> name, parent |-> parent])],
        rc |-> "NC_NOERR", id |-> Len(st.grps) + 1]

\* TypeMap<T>::write and TypeMap<T>::read, the whole-array entry points: both
\* are nc_put_var_<T>.  read hands the caller's buffer to it.
TypeMap_write(st, id, v, data, fail) == NcPutVar(st, id, v, data, fail)

TypeMap_read(st, id, v, buf, fail) ==
  LET w == NcPutVar(st, id, v, buf, fail)
  IN [st |-> w.st, buf |-> buf, rc |-> w.rc]

\* ------------------------------------------------- detail::handle_error ----
\* TRUE when handle_error throws std::runtime_error for this code.
HandleError(rc) == rc # "NC_NOERR"

\* ------------------------------------------------------- detail::FileID ----
NewFileID ==
  [alive |-> TRUE, id |-> 0, open |-> TRUE, acquired |-> FALSE,
   closeCalls |-> 0, ncClose |-> 0]

DeadFileID == [NewFileID EXCEPT !.alive = FALSE, !.open = FALSE]

\* FileID::close(): nc_close only while `open'; `open' is cleared after
\* handle_error returned, so not when it throws.
FileID_close(hs, st, h, fail) ==
  IF hs[h].open
  THEN LET r == NcClose(st, hs[h].id, fail)
       IN [handles |-> [hs EXCEPT ![h].open = HandleError(r.rc),
                                  ![h].ncClose = Inc(@)],
           store   |-> r.st,
           raised  |-> HandleError(r.rc),
           calls   |-> <<Call("nc_close", st, hs[h].id, r.rc)>>]
  ELSE [handles |-> hs, store |-> st, raised |-> FALSE, calls |-> <<>>]

\* FileID::~FileID(): close(); the destructor is noexcept, so an exception
\* leaving close() ends the program in std::terminate (`raised').
FileID_dtor(hs, st, h, fail) ==
  LET r == FileID_close(hs, st, h, fail)
  IN [r EXCEPT !.handles = [r.handles EXCEPT ![h].alive = FALSE]]

\* The owners of FileID h: the File (its Group::file_ptr_ and the file_ptr_ of
\* every Variable of its catalog) and the caller's Variables.
Owners(h, f, uv) ==
  (IF f # NoFile /\ f.h = h THEN 1 + Cardinality(DOMAIN f.vars) ELSE 0)
  + Cardinality({k \in USlots : uv[k] # NoVar /\ uv[k].h = h})

\* shared_ptr: the FileID whose last owner went away is destroyed.
Release(hs, st, h, f, uv, fail) ==
  IF h \in Handles /\ hs[h].alive /\ Owners(h, f, uv) = 0
  THEN FileID_dtor(hs, st, h, fail)
  ELSE [handles |-> hs, store |-> st, raised |-> FALSE, calls |-> <<>>]

\* --------------------------------------------------- Dimension, Variable ----
\* Variable::parse_dimensions: one Dimension{dim_id} per axis, name and size
\* from nc_inq_dim; `unlimited' keeps its default.
Variable_parse_dimensions(st, v) ==
  [i \in 1..Len(st.vars[v].dimids) |->
     LET d == st.vars[v].dimids[i]
     IN [id |-> d, name |-> st.dims[d].name, size |-> st.dims[d].len,
         unlimited |-> FALSE]]

\* Variable::Variable(file_ptr, parent_id, id): nc_inq_var, then
\* parse_dimensions.
Variable_ctor(st, h, parent, v) ==
  [h |-> h, parent_id |-> parent, id |-> v, name |-> st.vars[v].name,
   type |-> st.vars[v].type, dims |-> Variable_parse_dimensions(st, v)]

\* Variable::get_dimensions(): the recorded list.
Variable_get_dimensions(var) == var.dims

\* Variable::shape() and Variable::size(): from the sizes recorded in
\* dimensions_.
Variable_shape(var) == [i \in 1..Len(var.dims) |-> var.dims[i].size]
Variable_size(var)  == Prod(Variable_shape(var))

\* ------------------------------------------------------------- Group ----
\* Group::parse_dimensions: every dimension id first, then the unlimited ids
\* again, overwriting the entry of the same name with unlimited = true.
Group_parse_dimensions(st) ==
  LET all  == [n \in {st.dims[i].name : i \in 1..Len(st.dims)} |->
                 LET d == DimIdOf(st, n)
                 IN [id |-> d, name |-> n, size |-> st.dims[d].len,
                     unlimited |-> FALSE]]
      unl  == {st.dims[i].name : i \in {j \in 1..Len(st.dims) : st.dims[j].unlimited}}
  IN [n \in DOMAIN all |-> IF n \in unl THEN [all[n] EXCEPT !.unlimited = TRUE]
                                        ELSE all[n]]

\* Group::parse_variables: one Variable per enumerated id.  The id buffer has
\* n_dims_ elements and receives n_vars_ ids.
Group_parse_variables(st, h, id) ==
  [n \in {st.vars[i].name : i \in 1..Len(st.vars)} |->
     Variable_ctor(st, h, id, CHOOSE i \in 1..Len(st.vars) : st.vars[i].name = n)]

VarIdBufferOverflow(st) == Len(st.vars) > Len(st.dims)

\* Group::Group(file_ptr, id, name): the five count inquiries (the first may
\* fail: handle_error throws), then parse_dimensions and parse_variables.
Group_ctor(st, h, id, failInq) ==
  LET rc == IF ~ValidId(st, id) THEN "NC_EBADID"
            ELSE IF failInq THEN "NC_EIO" ELSE "NC_NOERR"
  IN IF HandleError(rc)
     THEN [raised |-> TRUE, calls |-> <<Call("nc_inq_dimids", st, id, rc)>>,
           group |-> NoFile]
     ELSE [raised |-> FALSE,
           calls |-> <<Call("nc_inq_dimids", st, id, rc),
                       Call("nc_inq_unlimdims", st, id, rc),
                       Call("nc_inq_varids", st, id, rc),
                       Call("nc_inq_natts", st, id, rc),
                       Call("nc_inq_grps", st, id, rc)>>,
           group |-> [h |-> h, id |-> id,
                      dims |-> Group_parse_dimensions(st),
                      vars |-> Group_parse_variables(st, h, id),
                      groups |-> <<>>]]

Fails(fl, i) == fl = i

\* A variant of assert_write_mode that drops the code of nc_enddef.
detail_assert_write_mode_lenient(st, id, fail) ==
  LET r == NcEnddef(st, id, fail)
  IN [st |-> r.st, raised |-> FALSE,
      calls |-> <<Call("nc_enddef", st, id, r.rc)>>]

\* detail::assert_write_mode(nc_id): nc_enddef; NC_ENOTINDEFINE is absorbed,
\* every other code goes to handle_error.
detail_assert_write_mode(st, id, fail) ==
  LET r == NcEnddef(st, id, fail)
  IN [st |-> r.st, raised |-> r.rc # "NC_ENOTINDEFINE" /\ HandleError(r.rc),
      calls |-> <<Call("nc_enddef", st, id, r.rc)>>]

\* A variant of assert_define_mode that hands every code to handle_error.
detail_assert_define_mode_strict(st, id, fail) ==
  LET r == NcRedef(st, id, fail)
  IN [st |-> r.st, raised |-> HandleError(r.rc),
      calls |-> <<Call("nc_redef", st, id, r.rc)>>]

\* detail::assert_define_mode(nc_id): nc_redef; NC_EINDEFINE is absorbed.
detail_assert_define_mode(st, id, fail) ==
  LET r == NcRedef(st, id, fail)
  IN [st |-> r.st, raised |-> r.rc # "NC_EINDEFINE" /\ HandleError(r.rc),
      calls |-> <<Call("nc_redef", st, id, r.rc)>>]

\* A variant of sync() that returns without a call to the library.
Group_sync_nocommit(st, id, failEnddef, failSync) ==
  [st |-> st, raised |-> FALSE, calls |-> <<>>]

\* Group::sync(): assert_write_mode(), then nc_sync and handle_error.
Group_sync(st, id, failEnddef, failSync) ==
  LET a == detail_assert_write_mode(st, id, failEnddef)
  IN IF a.raised THEN a
     ELSE LET r == NcSync(a.st, id, failSync)
          IN [st |-> r.st, raised |-> HandleError(r.rc),
              calls |-> a.calls \o <<Call("nc_sync", a.st, id, r.rc)>>]

\* A variant of check_type that accepts every element type.
Variable_check_type_off(var, T) == FALSE

\* Variable::check_type<T>(): TRUE when it throws.
Variable_check_type(var, T) == T # var.type

\* The outcome of a Group or Variable method: the library afterwards, the
\* File's catalog afterwards, how the method ended and the calls it made.
Outcome(st, f, result, calls) ==
  [st |-> st, file |-> f, result |-> result, calls |-> calls]

\* A variant of add_dimension(name, size) that stores the catalog entry before
\* it looks at the code of nc_def_dim.
Group_add_dimension_early(st, f, name, size, fl) ==
  LET a == detail_assert_define_mode(st, f.id, Fails(fl, 1))
  IN IF a.raised THEN Outcome(a.st, f, "mode_error", a.calls)
     ELSE
     LET d   == NcDefDim(a.st, f.id, name, size, Fails(fl, 2))
         c2  == a.calls \o <<Call("nc_def_dim", a.st, f.id, d.rc)>>
         dim == [id |-> d.id, name |-> name, size |-> size, unlimited |-> FALSE]
         f2  == [f EXCEPT !.dims = (name :> dim) @@ @]
     IN IF HandleError(d.rc) THEN Outcome(d.st, f2, "store_error", c2)
        ELSE
        LET s == Group_sync(d.st, f.id, Fails(fl, 3), Fails(fl, 4))
        IN Outcome(s.st, f2, IF s.raised THEN "store_error" ELSE "ok",
                   c2 \o s.calls)

\* Group::add_dimension(name, size): the catalog entry is stored before sync().
Group_add_dimension(st, f, name, size, fl) ==
  LET a == detail_assert_define_mode(st, f.id, Fails(fl, 1))
  IN IF a.raised THEN Outcome(a.st, f, "mode_error", a.calls)
     ELSE
     LET d  == NcDefDim(a.st, f.id, name, size, Fails(fl, 2))
         c2 == a.calls \o <<Call("nc_def_dim", a.st, f.id, d.rc)>>
     IN IF HandleError(d.rc) THEN Outcome(d.st, f, "store_error", c2)
        ELSE
        LET dim == [id |-> d.id, name |-> name, size |-> size, unlimited |-> FALSE]
            f2  == [f EXCEPT !.dims = (name :> dim) @@ @]
            s   == Group_sync(d.st, f.id, Fails(fl, 3), Fails(fl, 4))
        IN Outcome(s.st, f2, IF s.raised THEN "store_error" ELSE "ok",
                   c2 \o s.calls)

\* Group::add_dimension(name): NC_UNLIMITED; size is size_t(-1), written -1;
\* the catalog entry is stored after sync().
Group_add_dimension_unlimited(st, f, name, fl) ==
  LET a == detail_assert_define_mode(st, f.id, Fails(fl, 1))
  IN IF a.raised THEN Outcome(a.st, f, "mode_error", a.calls)
     ELSE
     LET d  == NcDefDim(a.st, f.id, name, 0, Fails(fl, 2))
         c2 == a.calls \o <<Call("nc_def_dim", a.st, f.id, d.rc)>>
     IN IF HandleError(d.rc) THEN Outcome(d.st, f, "store_error", c2)
        ELSE
        LET dim == [id |-> d.id, name |-> name, size |-> -1, unlimited |-> TRUE]
            s   == Group_sync(d.st, f.id, Fails(fl, 3), Fails(fl, 4))
        IN IF s.raised THEN Outcome(s.st, f, "store_error", c2 \o s.calls)
           ELSE Outcome(s.st, [f EXCEPT !.dims = (name :> dim) @@ @], "ok",
                        c2 \o s.calls)

\* A variant of add_variable without the lookup's throw: a name that is not
\* in dimensions_ gives the dimension id 0.
Group_add_variable_unchecked(st, f, name, dimensions, type, fl) ==
  LET a == detail_assert_define_mode(st, f.id, Fails(fl, 1))
  IN IF a.raised THEN Outcome(a.st, f, "mode_error", a.calls)
     ELSE
     LET dim_ids == [i \in 1..Len(dimensions) |->
                       IF dimensions[i] \in DOMAIN f.dims
                       THEN f.dims[dimensions[i]].id ELSE 0]
         d  == NcDefVar(a.st, f.id, name, type, dim_ids, Fails(fl, 2))
         c2 == a.calls \o <<Call("nc_def_var", a.st, f.id, d.rc)>>
     IN IF HandleError(d.rc) THEN Outcome(d.st, f, "store_error", c2)
        ELSE
        LET s == Group_sync(d.st, f.id, Fails(fl, 3), Fails(fl, 4))
        IN IF s.raised THEN Outcome(s.st, f, "store_error", c2 \o s.calls)
           ELSE Outcome(s.st,
                        [f EXCEPT !.vars = (name :> Variable_ctor(s.st, f.h, f.id, d.id)) @@ @],
                        "ok", c2 \o s.calls)

\* Group::add_variable(name, dimensions, type): every name is looked up in
\* dimensions_ before nc_def_var; the Variable is constructed and stored
\* after sync().
Group_add_variable(st, f, name, dimensions, type, fl) ==
  LET a == detail_assert_define_mode(st, f.id, Fails(fl, 1))
  IN IF a.raised THEN Outcome(a.st, f, "mode_error", a.calls)
     ELSE IF \E i \in 1..Len(dimensions) : dimensions[i] \notin DOMAIN f.dims
     THEN Outcome(a.st, f, "undefined_dimension", a.calls)
     ELSE
     LET dim_ids == [i \in 1..Len(dimensions) |-> f.dims[dimensions[i]].id]
         d  == NcDefVar(a.st, f.id, name, type, dim_ids, Fails(fl, 2))
         c2 == a.calls \o <<Call("nc_def_var", a.st, f.id, d.rc)>>
     IN IF HandleError(d.rc) THEN Outcome(d.st, f, "store_error", c2)
        ELSE
        LET s == Group_sync(d.st, f.id, Fails(fl, 3), Fails(fl, 4))
        IN IF s.raised THEN Outcome(s.st, f, "store_error", c2 \o s.calls)
           ELSE Outcome(s.st,
                        [f EXCEPT !.vars = (name :> Variable_ctor(s.st, f.h, f.id, d.id)) @@ @],
                        "ok", c2 \o s.calls)

\* Group::get_dimension / Group::get_variable: a lookup in the catalog.
Group_get_dimension(f, name) ==
  IF name \in DOMAIN f.dims THEN "ok" ELSE "not_found"

Group_get_variable(f, name) ==
  IF name \in DOMAIN f.vars THEN "ok" ELSE "not_found"

\* A write<T> that leaves define mode before it looks at the element type.
Variable_write_datafirst(st, var, ncid, T, starts, counts, data, fl) ==
  LET a == detail_assert_write_mode(st, ncid, Fails(fl, 1))
  IN IF a.raised THEN Outcome(a.st, <<>>, "mode_error", a.calls)
     ELSE IF Variable_check_type(var, T)
     THEN Outcome(a.st, <<>>, "type_mismatch", a.calls)
     ELSE LET w == NcPutVara(a.st, var.parent_id, var.id, starts, counts, data, Fails(fl, 2))
          IN Outcome(w.st, <<>>, "ok",
                     a.calls \o <<Call("nc_put_vara", a.st, var.parent_id, w.rc)>>)

\* Variable::write<T>(starts, counts, data): check_type, assert_write_mode on
\* the FileID's id, then TypeMap<T>::write_array, whose code is dropped.
Variable_write(st, var, ncid, T, starts, counts, data, fl) ==
  IF Variable_check_type(var, T) THEN Outcome(st, <<>>, "type_mismatch", <<>>)
  ELSE
  LET a == detail_assert_write_mode(st, ncid, Fails(fl, 1))
  IN IF a.raised THEN Outcome(a.st, <<>>, "mode_error", a.calls)
     ELSE LET w == NcPutVara(a.st, var.parent_id, var.id, starts, counts, data, Fails(fl, 2))
          IN Outcome(w.st, <<>>, "ok",
                     a.calls \o <<Call("nc_put_vara", a.st, var.parent_id, w.rc)>>)

\* Variable::read<T>(starts, counts, data): the same with
\* TypeMap<T>::read_array; `file' of the outcome is the caller's buffer.
Variable_read(st, var, ncid, T, starts, counts, buf, fl) ==
  IF Variable_check_type(var, T) THEN Outcome(st, buf, "type_mismatch", <<>>)
  ELSE
  LET a == detail_assert_write_mode(st, ncid, Fails(fl, 1))
  IN IF a.raised THEN Outcome(a.st, buf, "mode_error", a.calls)
     ELSE LET g == NcGetVara(a.st, var.parent_id, var.id, starts, counts, buf, Fails(fl, 2))
          IN Outcome(a.st, g.buf, "ok",
                     a.calls \o <<Call("nc_get_vara", a.st, var.parent_id, g.rc)>>)

\* Variable::write<T>(data) and Variable::read<T>(data), the whole-array
\* forms: assert_write_mode, check_type, then TypeMap<T>::write / ::read with
\* its code handed to handle_error.
Variable_write_all(st, var, ncid, T, data, fl) ==
  LET a == detail_assert_write_mode(st, ncid, Fails(fl, 1))
  IN IF a.raised THEN Outcome(a.st, <<>>, "mode_error", a.calls)
     ELSE IF Variable_check_type(var, T)
     THEN Outcome(a.st, <<>>, "type_mismatch", a.calls)
     ELSE LET w == TypeMap_write(a.st, var.parent_id, var.id, data, Fails(fl, 2))
          IN Outcome(w.st, <<>>, IF HandleError(w.rc) THEN "store_error" ELSE "ok",
                     a.calls \o <<Call("nc_put_var", a.st, var.parent_id, w.rc)>>)

Variable_read_all(st, var, ncid, T, buf, fl) ==
  LET a == detail_assert_write_mode(st, ncid, Fails(fl, 1))
  IN IF a.raised THEN Outcome(a.st, buf, "mode_error", a.calls)
     ELSE IF Variable_check_type(var, T)
     THEN Outcome(a.st, buf, "type_mismatch", a.calls)
     ELSE LET g == TypeMap_read(a.st, var.parent_id, var.id, buf, Fails(fl, 2))
          IN Outcome(g.st, g.buf, IF HandleError(g.rc) THEN "store_error" ELSE "ok",
                     a.calls \o <<Call("nc_put_var", a.st, var.parent_id, g.rc)>>)

\* Group::add_group(name) on the root group (path <<>>) or on a child group
\* (path <<child>>): assert_define_mode, nc_def_grp, then the nested Group is
\* registered by name.
Group_add_group(st, f, path, name, fl) ==
  LET a == detail_assert_define_mode(st, f.id, Fails(fl, 1))
  IN IF a.raised THEN Outcome(a.st, f, "mode_error", a.calls)
     ELSE
     LET parent == IF path = <<>> THEN 0 ELSE f.groups[path[1]].id
         d  == NcDefGrp(a.st, f.id, parent, name, Fails(fl, 2))
         c2 == a.calls \o <<Call("nc_def_grp", a.st, f.id, d.rc)>>
     IN IF HandleError(d.rc) THEN Outcome(d.st, f, "store_error", c2)
        ELSE Outcome(d.st,
               IF path = <<>>
               THEN [f EXCEPT !.groups = (name :> [id |-> d.id, groups |-> {}]) @@ @]
               ELSE [f EXCEPT !.groups[path[1]].groups = @ \cup {name}],
               "ok", c2)

\* Group::has_group(name) and Group::get_group_names(): lookups in the
\* nested-Group map.
Group_get_group_names(f, path) ==
  IF path = <<>> THEN DOMAIN f.groups
  ELSE IF path[1] \in DOMAIN f.groups THEN f.groups[path[1]].groups ELSE {}

Group_has_group(f, path, name) == name \in Group_get_group_names(f, path)

\* ------------------------------------------------------------ actions ----
Running == pc = "running" /\ nops < MaxOps

\* One more method call; the library failures it met that were the library's
\* own count against MaxFaults.
Injected(calls) == Cardinality({i \in 1..Len(calls) : calls[i].rc = "NC_EIO"})

Step ==
  /\ nops' = nops + 1
  /\ nfaults' = nfaults + Injected(last'.calls)
  /\ nfaults' <= MaxFaults

FreeHandle == CHOOSE h \in Handles :
                ~handles[h].alive /\ \A g \in Handles : ~handles[g].alive => h <= g

Done(op, h, result, calls, arg, buf) ==
  [op |-> op, h |-> h, result |-> result, calls |-> calls, arg |-> arg,
   buf |-> buf,
   wasOpen   |-> IF h \in Handles THEN handles[h].open ELSE FALSE,
   wasClosed |-> IF h \in Handles THEN handles[h].acquired /\ ~handles[h].open
                 ELSE FALSE,
   priorCloses |-> IF h \in Handles THEN handles[h].closeCalls ELSE 0]

\* File::create / File::open: make_shared<FileID>(), nc_create or nc_open into
\* file->id, handle_error, then File(file).  An exception unwinds through the
\* shared_ptr, whose FileID is destroyed with open = true.
Acquire(op, r, failInq, failClose, ubCrash) ==
  LET h   == FreeHandle
      hs0 == [handles EXCEPT ![h] = NewFileID]
  IN IF HandleError(r.rc)
     THEN LET d == FileID_dtor(hs0, r.st, h, failClose)
          IN /\ store' = d.store
             /\ handles' = d.handles
             /\ file' = NoFile
             /\ pc' = IF d.raised THEN "terminated" ELSE "running"
             /\ last' = Done(op, 0, IF d.raised THEN "terminate" ELSE "acquire_error",
                             <<Call(op, store, 0, r.rc)>> \o d.calls, <<>>, <<>>)
     ELSE LET hs1 == [hs0 EXCEPT ![h].id = r.id, ![h].acquired = TRUE]
              g   == Group_ctor(r.st, h, r.id, failInq)
          IN IF g.raised
             THEN LET d == FileID_dtor(hs1, r.st, h, failClose)
                  IN /\ store' = d.store
                     /\ handles' = d.handles
                     /\ file' = NoFile
                     /\ pc' = IF d.raised THEN "terminated" ELSE "running"
                     /\ last' = Done(op, 0,
                                     IF d.raised THEN "terminate" ELSE "inquire_error",
                                     <<Call(op, store, 0, r.rc)>> \o g.calls \o d.calls,
                                     <<>>, <<>>)
             ELSE /\ store' = r.st
                  /\ handles' = hs1
                  /\ file' = g.group
                  /\ pc' = IF VarIdBufferOverflow(r.st) /\ ubCrash
                           THEN "crashed" ELSE "running"
                  /\ last' = Done(op, 0, "ok",
                                  <<Call(op, store, 0, r.rc)>> \o g.calls, <<>>, <<>>)

Create(mode, fail, failInq, failClose) ==
  /\ Running
  /\ file = NoFile /\ ~store.open
  /\ \E h \in Handles : ~handles[h].alive
  /\ Acquire("nc_create", NcCreate(store, mode, fail), failInq, failClose, FALSE)
  /\ Step
  /\ UNCHANGED uvars

Open(mode, fail, failInq, failClose, ubCrash) ==
  /\ Running
  /\ file = NoFile /\ ~store.open
  /\ \E h \in Handles : ~handles[h].alive
  /\ Acquire("nc_open", NcOpen(store, mode, fail), failInq, failClose, ubCrash)
  /\ Step
  /\ UNCHANGED uvars

\* file = File::open(path, mode) on a File whose file was closed: the new
\* File replaces the old one, whose file_ptr_ and catalog release the old
\* FileID.  An exception leaves `file' as it was.
Reopen(mode, fail, failInq, failClose, ubCrash) ==
  /\ Running
  /\ file # NoFile /\ ~store.open
  /\ \E h \in Handles : ~handles[h].alive
  /\ LET h   == FreeHandle
         r   == NcOpen(store, mode, fail)
         hs0 == [handles EXCEPT ![h] = NewFileID]
         hs1 == [hs0 EXCEPT ![h].id = r.id, ![h].acquired = TRUE]
         g   == IF HandleError(r.rc) THEN [raised |-> TRUE, calls |-> <<>>, group |-> NoFile]
                ELSE Group_ctor(r.st, h, r.id, failInq)
         d   == IF HandleError(r.rc) THEN FileID_dtor(hs0, r.st, h, failClose)
                ELSE IF g.raised THEN FileID_dtor(hs1, r.st, h, failClose)
                ELSE Release(hs1, r.st, file.h, g.group, uvars, failClose)
     IN /\ store' = d.store
        /\ handles' = d.handles
        /\ file' = IF g.raised THEN file ELSE g.group
        /\ pc' = IF d.raised THEN "terminated"
                 ELSE IF ~g.raised /\ VarIdBufferOverflow(r.st) /\ ubCrash THEN "crashed"
                 ELSE "running"
        /\ last' = Done("reopen", 0,
                        IF d.raised THEN "terminate"
                        ELSE IF HandleError(r.rc) THEN "acquire_error"
                        ELSE IF g.raised THEN "inquire_error" ELSE "ok",
                        <<Call("nc_open", store, 0, r.rc)>> \o g.calls \o d.calls,
                        [before |-> file], <<>>)
  /\ Step
  /\ UNCHANGED uvars

\* A variant of close() that also empties the dimension list of every
\* Variable that shares the FileID.
Close_invalidating(fail) ==
  /\ Running
  /\ file # NoFile
  /\ LET r == FileID_close(handles, store, file.h, fail)
     IN /\ store' = r.store
        /\ handles' = [r.handles EXCEPT ![file.h].closeCalls = Inc(@)]
        /\ last' = Done("close", file.h, IF r.raised THEN "close_error" ELSE "ok",
                        r.calls, <<>>, <<>>)
  /\ uvars' = [k \in USlots |->
                 IF uvars[k] # NoVar /\ uvars[k].h = file.h
                 THEN [uvars[k] EXCEPT !.dims = <<>>] ELSE uvars[k]]
  /\ Step
  /\ UNCHANGED <<file, pc>>

\* File::close(): file_ptr_->close().
Close(fail) ==
  /\ Running
  /\ file # NoFile
  /\ LET r == FileID_close(handles, store, file.h, fail)
     IN /\ store' = r.store
        /\ handles' = [r.handles EXCEPT ![file.h].closeCalls = Inc(@)]
        /\ last' = Done("close", file.h, IF r.raised THEN "close_error" ELSE "ok",
                        r.calls, <<>>, <<>>)
  /\ Step
  /\ UNCHANGED <<file, uvars, pc>>

\* The File object goes out of scope: its file_ptr_ and its catalog's
\* Variables release the FileID.
DropFile(failClose) ==
  /\ Running
  /\ file # NoFile
  /\ LET d == Release(handles, store, file.h, NoFile, uvars, failClose)
     IN /\ store' = d.store
        /\ handles' = d.handles
        /\ pc' = IF d.raised THEN "terminated" ELSE "running"
        /\ last' = Done("~File", file.h, IF d.raised THEN "terminate" ELSE "ok",
                        d.calls, <<>>, <<>>)
  /\ file' = NoFile
  /\ Step
  /\ UNCHANGED uvars

\* A Variable of the caller goes out of scope.
DropVar(k, failClose) ==
  /\ Running
  /\ uvars[k] # NoVar
  /\ LET uv == [uvars EXCEPT ![k] = NoVar]
         d  == Release(handles, store, uvars[k].h, file, uv, failClose)
     IN /\ store' = d.store
        /\ handles' = d.handles
        /\ uvars' = uv
        /\ pc' = IF d.raised THEN "terminated" ELSE "running"
        /\ last' = Done("~Variable", uvars[k].h,
                        IF d.raised THEN "terminate" ELSE "ok", d.calls, <<>>, <<>>)
  /\ Step
  /\ UNCHANGED file

\* The library call of one method that fails for a reason of the library's
\* own (an I/O error), by call site; 0: none.  A method stops at the first
\* exception, so one failure a method is every case.
Flags == 0..4

GroupOp(op, o, arg) ==
  /\ store' = o.st
  /\ file' = o.file
  /\ last' = Done(op, file.h, o.result, o.calls, arg, <<>>)
  /\ Step
  /\ UNCHANGED <<handles, uvars, pc>>

AddDimension(name, size, fl) ==
  /\ Running
  /\ file # NoFile
  /\ GroupOp("add_dimension", Group_add_dimension(store, file, name, size, fl),
             [name |-> name, size |-> size, before |-> file, defined |-> store.dims])

AddDimensionUnlimited(name, fl) ==
  /\ Running
  /\ file # NoFile
  /\ GroupOp("add_dimension", Group_add_dimension_unlimited(store, file, name, fl),
             [name |-> name, size |-> 0, before |-> file, defined |-> store.dims])

AddVariable(name, dimensions, type, fl) ==
  /\ Running
  /\ file # NoFile
  /\ GroupOp("add_variable",
             Group_add_variable(store, file, name, dimensions, type, fl),
             [name |-> name, dimensions |-> dimensions, type |-> type,
              before |-> file, defined |-> store.vars])

\* add_group on the File or on one of its child groups.
AddGroup(path, name, fl) ==
  /\ Running
  /\ file # NoFile
  /\ path # <<>> => path[1] \in DOMAIN file.groups
  /\ GroupOp("add_group", Group_add_group(store, file, path, name, fl),
             [path |-> path, name |-> name, before |-> file])

GetDimension(name) ==
  /\ Running
  /\ file # NoFile
  /\ last' = Done("get_dimension", file.h, Group_get_dimension(file, name), <<>>,
                  [name |-> name], <<>>)
  /\ Step
  /\ UNCHANGED <<store, handles, file, uvars, pc>>

\* auto var = file.get_variable(name): the copy is one more owner.
GetVariable(name, k) ==
  /\ Running
  /\ file # NoFile
  /\ uvars[k] = NoVar
  /\ LET res == Group_get_variable(file, name)
     IN /\ uvars' = IF res = "ok" THEN [uvars EXCEPT ![k] = file.vars[name]] ELSE uvars
        /\ last' = Done("get_variable", file.h, res, <<>>, [name |-> name], <<>>)
  /\ Step
  /\ UNCHANGED <<store, handles, file, pc>>

\* The starts and counts a caller passes, axis by axis: the first element,
\* the whole axis, its last element, and one element past its end (an
\* overrun on a fixed axis, an append on an unlimited one).
AxisArgs(var, i) ==
  IF var.id \in 1..Len(store.vars) /\ i <= Len(store.vars[var.id].dimids)
  THEN LET e == Extent(store, var.id, i)
       IN {a \in {<<0, 1>>, <<0, e>>, <<e - 1, 1>>, <<e, 1>>} :
             /\ a[1] >= 0 /\ a[2] >= 1
             /\ a[1] + a[2] <= MaxLen + (IF AxisUnlimited(store, var.id, i) THEN 0 ELSE 1)}
  ELSE {<<0, 1>>}

SlabArgs(var) ==
  LET axes  == 1..Len(var.dims)
      pairs == UNION {AxisArgs(var, i) : i \in axes}
  IN {[starts |-> [i \in axes |-> f[i][1]], counts |-> [i \in axes |-> f[i][2]]] :
        f \in {g \in [axes -> pairs] : \A i \in axes : g[i] \in AxisArgs(var, i)}}

Buffer(base, n) == [i \in 1..n |-> base + i - 1]

\* TRUE when the hyperslab lies within every fixed axis of the variable as the
\* library holds it.
InRange(var, starts, counts) ==
  /\ var.id \in 1..Len(store.vars)
  /\ Len(store.vars[var.id].dimids) = Len(starts)
  /\ \A i \in 1..Len(starts) :
       AxisUnlimited(store, var.id, i) \/ starts[i] + counts[i] <= Extent(store, var.id, i)

\* What the caller's previous method wrote to this hyperslab, when that was a
\* write<T> of it that returned normally; <<>> otherwise.
Written(var, T, starts, counts) ==
  IF /\ last.op = "write" /\ last.result = "ok"
     /\ last.h = var.h /\ last.arg.var = var.id /\ last.arg.T = T
     /\ last.arg.starts = starts /\ last.arg.counts = counts
     /\ last.arg.inRange
  THEN last.arg.data ELSE <<>>

Write(k, T, starts, counts, base, fl) ==
  /\ Running
  /\ uvars[k] # NoVar
  /\ LET var  == uvars[k]
         data == Buffer(base, Prod(counts))
         o    == Variable_write(store, var, handles[var.h].id, T, starts, counts,
                                data, fl)
     IN /\ store' = o.st
        /\ last' = Done("write", var.h, o.result, o.calls,
                        [var |-> var.id, T |-> T, declared |-> var.type,
                         starts |-> starts, counts |-> counts, data |-> data,
                         before |-> store.data,
                         inRange |-> InRange(var, starts, counts),
                         extents |-> IF InRange(var, starts, counts)
                                     THEN [i \in 1..Len(starts) |-> Extent(store, var.id, i)]
                                     ELSE <<>>],
                        <<>>)
  /\ Step
  /\ UNCHANGED <<handles, file, uvars, pc>>

Read(k, T, starts, counts, fl) ==
  /\ Running
  /\ uvars[k] # NoVar
  /\ LET var == uvars[k]
         buf == [i \in 1..Prod(counts) |-> Blank]
         o   == Variable_read(store, var, handles[var.h].id, T, starts, counts,
                              buf, fl)
     IN /\ store' = o.st
        /\ last' = Done("read", var.h, o.result, o.calls,
                        [var |-> var.id, T |-> T, declared |-> var.type,
                         starts |-> starts, counts |-> counts, data |-> buf,
                         before |-> store.data,
                         written |-> Written(var, T, starts, counts)],
                        o.file)
  /\ Step
  /\ UNCHANGED <<handles, file, uvars, pc>>

\* What the caller's previous method wrote to the whole variable, when that
\* was a whole-array write<T> that returned normally; <<>> otherwise.
WrittenAll(var, T) ==
  IF /\ last.op = "write_all" /\ last.result = "ok"
     /\ last.h = var.h /\ last.arg.var = var.id /\ last.arg.T = T
  THEN last.arg.data ELSE <<>>

\* var.write<T>(data) with a buffer of size() elements.
WriteAll(k, T, base, fl) ==
  /\ Running
  /\ uvars[k] # NoVar
  /\ LET var  == uvars[k]
         data == Buffer(base, Variable_size(var))
         o    == Variable_write_all(store, var, handles[var.h].id, T, data, fl)
     IN /\ store' = o.st
        /\ last' = Done("write_all", var.h, o.result, o.calls,
                        [var |-> var.id, T |-> T, declared |-> var.type,
                         data |-> data, before |-> store.data],
                        <<>>)
  /\ Step
  /\ UNCHANGED <<handles, file, uvars, pc>>

\* var.read<T>(data) into a buffer of size() elements.
ReadAll(k, T, fl) ==
  /\ Running
  /\ uvars[k] # NoVar
  /\ LET var == uvars[k]
         buf == [i \in 1..Variable_size(var) |-> Blank]
         o   == Variable_read_all(store, var, handles[var.h].id, T, buf, fl)
     IN /\ store' = o.st
        /\ last' = Done("read_all", var.h, o.result, o.calls,
                        [var |-> var.id, T |-> T, declared |-> var.type,
                         data |-> buf, before |-> store.data,
                         written |-> WrittenAll(var, T)],
                        o.file)
  /\ Step
  /\ UNCHANGED <<handles, file, uvars, pc>>

\* create_test_file(name) of the tests: File::create, a fixed and an
\* unlimited dimension and a variable over both, every library call
\* succeeding.  Computed with the methods above.
TestFile ==
  LET c  == NcCreate(EmptyDisk, "Clobber", FALSE)
      g  == Group_ctor(c.st, 1, c.id, FALSE)
      o1 == Group_add_dimension(c.st, g.group, "x", MaxLen, 0)
      o2 == Group_add_dimension_unlimited(o1.st, o1.file, "t", 0)
  IN Group_add_variable(o2.st, o2.file, "v", <<"t", "x">>, "Int", 0)

\* The file of the tests' single-value case: File::create and one variable
\* without dimensions.
SingleValueFile ==
  LET c == NcCreate(EmptyDisk, "Clobber", FALSE)
      g == Group_ctor(c.st, 1, c.id, FALSE)
  IN Group_add_variable(c.st, g.group, "v", <<>>, "Int", 0)

TestFiles == {TestFile, SingleValueFile}

NoLast ==
  [op |-> "none", h |-> 0, result |-> "ok", calls |-> <<>>, arg |-> <<>>,
   buf |-> <<>>, wasOpen |-> FALSE, wasClosed |-> FALSE, priorCloses |-> 0]

\* The program starts with no file, or right after one of the tests' files
\* was made.
Init ==
  /\ \/ /\ store = EmptyDisk
        /\ file = NoFile
        /\ handles = [h \in Handles |-> DeadFileID]
     \/ \E t \in TestFiles :
        /\ store = t.st
        /\ file = t.file
        /\ handles = [h \in Handles |->
                        IF h = 1 THEN [NewFileID EXCEPT !.id = 1, !.acquired = TRUE]
                        ELSE DeadFileID]
  /\ uvars = [k \in USlots |-> NoVar]
  /\ pc = "running"
  /\ last = NoLast
  /\ nops = 0
  /\ nfaults = 0

Next ==
  \/ \E m \in CreationModes, f, fi, fc \in BOOLEAN : Create(m, f, fi, fc)
  \/ \E m \in OpenModes, f, fi, fc, ub \in BOOLEAN : Open(m, f, fi, fc, ub)
  \/ \E m \in OpenModes, f, fi, fc, ub \in BOOLEAN : Reopen(m, f, fi, fc, ub)
  \/ \E f \in BOOLEAN : Close(f)
  \/ \E fc \in BOOLEAN : DropFile(fc)
  \/ \E k \in USlots, fc \in BOOLEAN : DropVar(k, fc)
  \/ \E n \in FixedNames, z \in 1..MaxLen, fl \in Flags : AddDimension(n, z, fl)
  \/ \E n \in UnlNames, fl \in Flags : AddDimensionUnlimited(n, fl)
  \/ \E n \in VarNames, ds \in DimLists, t \in ElemTypes, fl \in Flags :
       AddVariable(n, ds, t, fl)
  \/ \E p \in {<<>>} \cup {<<g>> : g \in GroupNames}, n \in GroupNames, fl \in 0..2 :
       AddGroup(p, n, fl)
  \/ \E k \in USlots, T \in ElemTypes, b \in Bases, fl \in 0..2 : WriteAll(k, T, b, fl)
  \/ \E k \in USlots, T \in ElemTypes, fl \in 0..2 : ReadAll(k, T, fl)
  \/ \E n \in DimNames : GetDimension(n)
  \/ \E n \in VarNames, k \in USlots : GetVariable(n, k)
  \/ \E k \in USlots :
       /\ Running /\ uvars[k] # NoVar
       /\ \E a \in SlabArgs(uvars[k]), T \in ElemTypes, b \in Bases, fl \in 0..2 :
            Write(k, T, a.starts, a.counts, b, fl)
  \/ \E k \in USlots :
       /\ Running /\ uvars[k] # NoVar
       /\ \E a \in SlabArgs(uvars[k]), T \in ElemTypes, fl \in 0..2 :
            Read(k, T, a.starts, a.counts, fl)

Spec == Init /\ [][Next]_vars

\* ------------------------------------------- netcdf++.h: class File ----
\* The File of netcdf++.h holds the ncid and its own flag: no FileID, no
\* catalog.  In SpecPP `handles' holds the caller's File objects of this
\* class; `file' and `uvars' are not used.
\*   released: an nc_close this object made returned NC_NOERR
\*   ncClose:  the nc_close calls this object made
\*   late:     those it made after `released'
NoPPFile ==
  [alive |-> FALSE, id |-> 0, open |-> FALSE, acquired |-> FALSE,
   released |-> FALSE, ncClose |-> 0, late |-> 0]

\* File(int id): id_(id), open_(true).
PPFile_ctor(id) == [NoPPFile EXCEPT !.alive = TRUE, !.id = id, !.open = TRUE,
                                    !.acquired = TRUE]

\* One nc_close made by File object f, counted in f.
PPFile_nc_close(f, st, fail) ==
  LET r == NcClose(st, f.id, fail)
  IN [f  |-> [f EXCEPT !.ncClose = Inc(@),
                       !.late = IF f.released THEN Inc(@) ELSE @,
                       !.released = @ \/ r.rc = "NC_NOERR"],
      st |-> r.st, rc |-> r.rc,
      calls |-> <<Call("nc_close", st, f.id, r.rc)>>]

\* File::close(): nc_close only while open_; open_ is cleared after
\* handle_error returned.
PPFile_close(f, st, fail) ==
  IF f.open
  THEN LET c == PPFile_nc_close(f, st, fail)
       IN [f |-> [c.f EXCEPT !.open = HandleError(c.rc)], st |-> c.st,
           raised |-> HandleError(c.rc), calls |-> c.calls]
  ELSE [f |-> f, st |-> st, raised |-> FALSE, calls |-> <<>>]

\* File::~File(): nc_close(id_), whatever open_ says; the code is dropped.
PPFile_dtor(f, st, fail) ==
  LET c == PPFile_nc_close(f, st, fail)
  IN [f |-> [c.f EXCEPT !.alive = FALSE, !.open = FALSE], st |-> c.st,
      raised |-> FALSE, calls |-> c.calls]

PPLast(op, h, result, calls) ==
  [op |-> op, h |-> h, result |-> result, calls |-> calls, arg |-> <<>>,
   buf |-> <<>>, wasOpen |-> FALSE, wasClosed |-> FALSE, priorCloses |-> 0]

\* File::create / File::open of netcdf++.h: nc_create or nc_open into a local
\* id, handle_error, then `return File(id)', whose constructor calls nc_inq
\* and handle_error.  An exception of the constructor leaves no object, so no
\* destructor runs.  Where the build does not elide the copy of the returned
\* temporary (`copied'), the temporary is destroyed after the copy.
PPAcquire(op, r, failInq, copied, failClose) ==
  LET h == FreeHandle
      c1 == <<Call(op, store, 0, r.rc)>>
  IN IF HandleError(r.rc)
     THEN /\ store' = r.st
          /\ handles' = handles
          /\ last' = PPLast(op, 0, "acquire_error", c1)
     ELSE LET q  == IF failInq THEN "NC_EIO" ELSE "NC_NOERR"
              c2 == c1 \o <<Call("nc_inq", r.st, r.id, q)>>
          IN IF HandleError(q)
             THEN /\ store' = r.st
                  /\ handles' = handles
                  /\ last' = PPLast(op, 0, "inquire_error", c2)
             ELSE IF copied
             THEN LET d == PPFile_dtor(PPFile_ctor(r.id), r.st, failClose)
                  IN /\ store' = d.st
                     /\ handles' = [handles EXCEPT ![h] =
                                      [d.f EXCEPT !.alive = TRUE, !.open = TRUE]]
                     /\ last' = PPLast(op, h, "ok", c2 \o d.calls)
             ELSE /\ store' = r.st
                  /\ handles' = [handles EXCEPT ![h] = PPFile_ctor(r.id)]
                  /\ last' = PPLast(op, h, "ok", c2)

PPCreate(mode, fail, failInq, copied, failClose) ==
  /\ Running
  /\ ~store.open
  /\ \E h \in Handles : ~handles[h].alive
  /\ PPAcquire("nc_create", NcCreate(store, mode, fail), failInq, copied, failClose)
  /\ Step
  /\ UNCHANGED <<file, uvars, pc>>

PPOpen(mode, fail, failInq, copied, failClose) ==
  /\ Running
  /\ ~store.open
  /\ \E h \in Handles : ~handles[h].alive
  /\ PPAcquire("nc_open", NcOpen(store, mode, fail), failInq, copied, failClose)
  /\ Step
  /\ UNCHANGED <<file, uvars, pc>>

\* file.close() on a File object the caller holds.
PPClose(h, fail) ==
  /\ Running
  /\ handles[h].alive
  /\ LET c == PPFile_close(handles[h], store, fail)
     IN /\ store' = c.st
        /\ handles' = [handles EXCEPT ![h] = c.f]
        /\ last' = PPLast("close", h, IF c.raised THEN "close_error" ELSE "ok", c.calls)
  /\ Step
  /\ UNCHANGED <<file, uvars, pc>>

\* The File object goes out of scope.
PPDestroy(h, fail) ==
  /\ Running
  /\ handles[h].alive
  /\ LET d == PPFile_dtor(handles[h], store, fail)
     IN /\ store' = d.st
        /\ handles' = [handles EXCEPT ![h] = d.f]
        /\ last' = PPLast("destroy", h, "ok", d.calls)
  /\ Step
  /\ UNCHANGED <<file, uvars, pc>>

InitPP ==
  /\ store = EmptyDisk
  /\ file = NoFile
  /\ handles = [h \in Handles |-> NoPPFile]
  /\ uvars = [k \in USlots |-> NoVar]
  /\ pc = "running"
  /\ last = NoLast
  /\ nops = 0
  /\ nfaults = 0

NextPP ==
  \/ \E m \in CreationModes, f, fi, cp, fc \in BOOLEAN : PPCreate(m, f, fi, cp, fc)
  \/ \E m \in OpenModes, f, fi, cp, fc \in BOOLEAN : PPOpen(m, f, fi, cp, fc)
  \/ \E h \in Handles, f \in BOOLEAN : PPClose(h, f)
  \/ \E h \in Handles, f \in BOOLEAN : PPDestroy(h, f)

SpecPP == InitPP /\ [][NextPP]_vars

\* ------------------------------------------------------------- claims ----
DefinitionPrims == {"nc_def_dim", "nc_def_var"}
TransferPrims   == {"nc_put_vara", "nc_get_vara"}
TransitionPrims == {"nc_redef", "nc_enddef"}
CatalogOps      == {"add_dimension", "add_variable", "get_dimension", "get_variable"}
TransferOps     == {"read", "write"}
Raised          == {"mode_error", "store_error", "undefined_dimension",
                    "type_mismatch", "not_found", "close_error"}

LastCalls == 1..Len(last.calls)

\* C1: every close() after the first on a handle is a no-op: it makes no
\* nc_close call and does not raise.
C1_LaterCloseIsNoOp ==
  (last.op = "close" /\ last.priorCloses >= 1)
    => (last.calls = <<>> /\ last.result = "ok")

\* C2: the close made when the last owner of a FileID goes away never raises:
\* the destruction of a File or a Variable ends normally.
C2_ImplicitCloseNeverRaises ==
  last.op \in {"~File", "~Variable"}
    => (last.result = "ok" /\ pc = "running")

\* C3: after an explicit close() every catalog operation and every hyperslab
\* read or write on that handle fails, and makes no library call.
C3_ClosedHandleRejects ==
  (last.op \in CatalogOps \cup TransferOps /\ last.wasClosed)
    => (last.result \in Raised /\ last.calls = <<>>)

\* C4: a FileID that holds a file keeps it open while it is alive and close()
\* was not called, and nc_close is called for it exactly once: never twice,
\* and once when it is destroyed.
C4_ClosedExactlyOnce ==
  \A h \in Handles :
    handles[h].acquired =>
      /\ handles[h].ncClose <= 1
      /\ (handles[h].alive /\ handles[h].closeCalls = 0)
           => (handles[h].open /\ ValidId(store, handles[h].id))
      /\ ~handles[h].alive => handles[h].ncClose = 1

\* C5: a definition primitive is called only on a file in define mode and a
\* data-transfer primitive only on a file in data mode.
C5_ModeDiscipline ==
  \A i \in LastCalls :
    /\ last.calls[i].prim \in DefinitionPrims => last.calls[i].mode = "define"
    /\ last.calls[i].prim \in TransferPrims => last.calls[i].mode = "data"

\* C5, the case: a write that left define mode and then transferred data.
C5_Witness ==
  /\ last.op = "write"
  /\ \E i, j \in LastCalls :
       /\ i < j
       /\ last.calls[i].prim = "nc_enddef" /\ last.calls[i].rc = "NC_NOERR"
       /\ last.calls[j].prim = "nc_put_vara" /\ last.calls[j].rc = "NC_NOERR"

\* The mode of the file after call i of the last method.
ModeAfter(i) ==
  IF i < Len(last.calls) THEN last.calls[i + 1].mode
  ELSE IF store.open THEN store.mode ELSE "none"

AlreadyInMode(c) ==
  \/ c.prim = "nc_redef" /\ c.rc = "NC_EINDEFINE"
  \/ c.prim = "nc_enddef" /\ c.rc = "NC_ENOTINDEFINE"

FailedTransition(c) ==
  c.prim \in TransitionPrims /\ c.rc # "NC_NOERR" /\ ~AlreadyInMode(c)

\* A transition into the mode the file is in does not raise and leaves the
\* mode as it was.
IdempotentTransitions ==
  \A i \in LastCalls :
    AlreadyInMode(last.calls[i]) =>
      /\ ModeAfter(i) = last.calls[i].mode
      /\ i = Len(last.calls) => last.result \notin {"mode_error", "store_error"}

\* C6 as stated: a transition into the mode the file is in succeeds and
\* leaves the mode unchanged; any other failure of a transition raises, and
\* the method calls no definition or data-transfer primitive.
C6_AbortsBeforeAnyPrimitive ==
  /\ IdempotentTransitions
  /\ \A i \in LastCalls :
       FailedTransition(last.calls[i]) =>
         /\ last.result \in {"mode_error", "store_error"}
         /\ \A j \in LastCalls :
              last.calls[j].prim \notin DefinitionPrims \cup TransferPrims

\* C6, amended: a transition into the mode the file is in succeeds and leaves
\* the mode unchanged; any other failure of a transition raises and is the
\* method's last library call, so no primitive is called after it.
C6_FailedTransitionEndsMethod ==
  /\ IdempotentTransitions
  /\ \A i \in LastCalls :
       FailedTransition(last.calls[i]) =>
         /\ last.result \in {"mode_error", "store_error"}
         /\ i = Len(last.calls)

\* C6, the cases: an add_dimension on a file in define mode that went on to
\* nc_def_dim, and a write whose nc_enddef failed.
C6_Witness ==
  \/ /\ last.op = "add_dimension" /\ Len(last.calls) >= 2
     /\ AlreadyInMode(last.calls[1]) /\ last.calls[2].prim = "nc_def_dim"
     /\ last.result = "ok"
  \/ /\ last.op = "write" /\ last.result = "mode_error"
     /\ FailedTransition(last.calls[1]) /\ last.calls[1].mode = "define"

\* C7: a read or write with an element type other than the variable's fails
\* with the type error, calls no library primitive, and leaves the stored
\* cells and the caller's buffer as they were.
C7_TypeMismatchRejected ==
  (last.op \in TransferOps /\ last.arg.T # last.arg.declared) =>
    /\ last.result = "type_mismatch"
    /\ last.calls = <<>>
    /\ store.data = last.arg.before
    /\ last.op = "read" => last.buf = last.arg.data

\* C7, the case: a mismatched read of a variable that holds written cells.
C7_Witness ==
  /\ last.op = "read" /\ last.arg.T # last.arg.declared
  /\ last.arg.var \in 1..Len(store.data)
  /\ \E c \in DOMAIN store.data[last.arg.var] : store.data[last.arg.var][c] # Fill

UndefinedDimension ==
  /\ last.op = "add_variable"
  /\ \E i \in 1..Len(last.arg.dimensions) :
       last.arg.dimensions[i] \notin DOMAIN last.arg.before.dims

C9_ReadReturnsWritten ==
  /\ (last.op = "read" /\ last.result = "ok" /\ last.arg.written # <<>>)
       => last.buf = last.arg.written
  /\ (last.op = "write" /\ last.result = "ok" /\ last.arg.inRange) =>
       \A c \in DOMAIN store.data[last.arg.var] :
         c \notin Slab(last.arg.starts, last.arg.counts)
           => store.data[last.arg.var][c] = last.arg.before[last.arg.var][c]

\* C10: a read or write whose data-transfer primitive returned an error does
\* not return normally.
C10_TransferFailureRaises ==
  (last.op \in TransferOps
   /\ \E i \in LastCalls : /\ last.calls[i].prim \in TransferPrims
                           /\ last.calls[i].rc # "NC_NOERR")
    => last.result \in Raised

AcquireOps == {"nc_create", "nc_open", "reopen"}
DimNamesOf(st) == {st.dims[i].name : i \in 1..Len(st.dims)}
VarNamesOf(st) == {st.vars[i].name : i \in 1..Len(st.vars)}

\* The catalogs of two Files agree: the same dimension names, sizes of fixed
\* dimensions and unlimited flags, the same variable names and ranks.
SameCatalog(old, new) ==
  /\ DOMAIN new.dims = DOMAIN old.dims
  /\ \A n \in DOMAIN old.dims :
       /\ new.dims[n].unlimited = old.dims[n].unlimited
       /\ ~old.dims[n].unlimited => new.dims[n].size = old.dims[n].size
  /\ DOMAIN new.vars = DOMAIN old.vars
  /\ \A n \in DOMAIN old.vars :
       /\ new.vars[n].name = old.vars[n].name
       /\ Len(new.vars[n].dims) = Len(old.vars[n].dims)

\* C11: a File opened again after its close has the catalog the closed File
\* had, and the program goes on.
C11_CatalogSurvivesReopen ==
  (last.op = "reopen" /\ last.result = "ok")
    => (pc = "running" /\ SameCatalog(last.arg.before, file))

\* C13: after a write that made a variable longer along an unlimited axis,
\* shape() of the variable and the catalog entry of that dimension give the
\* extent the axis has now.
C13_ShapeFollowsGrowth ==
  (last.op = "write" /\ last.result = "ok" /\ last.arg.inRange
   /\ \E i \in 1..Len(last.arg.starts) :
        Extent(store, last.arg.var, i) > last.arg.extents[i])
    => \A k \in USlots :
         (uvars[k] # NoVar /\ uvars[k].h = last.h /\ uvars[k].id = last.arg.var)
           => \A i \in 1..Len(last.arg.starts) :
                AxisUnlimited(store, last.arg.var, i) =>
                  /\ Variable_shape(uvars[k])[i] = Extent(store, last.arg.var, i)
                  /\ (file # NoFile /\ file.h = last.h
                      /\ uvars[k].dims[i].name \in DOMAIN file.dims)
                       => file.dims[uvars[k].dims[i].name].size
                            = Extent(store, last.arg.var, i)

\* C14: a File::create or File::open whose nc_create / nc_open failed ends
\* with that error at the caller, the program running and no File made.
C14_AcquireFailureDelivered ==
  (last.op \in AcquireOps /\ last.calls[1].rc # "NC_NOERR")
    => /\ last.result = "acquire_error"
       /\ pc = "running"
       /\ IF last.op = "reopen" THEN file = last.arg.before ELSE file = NoFile

DuplicateDimension ==
  last.op = "add_dimension" /\ last.arg.name \in DOMAIN last.arg.before.dims

\* C15 as stated: add_dimension with a name the catalog holds does not fail,
\* and the catalog then holds that name with the size of this definition.
C15_LastWriteWins ==
  DuplicateDimension =>
    /\ last.result = "ok"
    /\ last.arg.name \in DOMAIN file.dims
    /\ last.arg.size > 0 => file.dims[last.arg.name].size = last.arg.size

\* C15, amended: add_dimension with a name the catalog holds fails, and the
\* catalog and the file's dimensions are as they were: one dimension of that
\* name, with the size and id of the first definition.
C15_DuplicateRejected ==
  DuplicateDimension =>
    /\ last.result \in {"mode_error", "store_error"}
    /\ \A i \in LastCalls : last.calls[i].prim = "nc_def_dim" =>
         last.calls[i].rc # "NC_NOERR"
    /\ file.dims = last.arg.before.dims
    /\ store.dims = last.arg.defined

\* C15, the case: a second definition, with another size, of a dimension of
\* the catalog, refused by nc_def_dim.
C15_Witness ==
  /\ DuplicateDimension
  /\ last.arg.size > 0
  /\ last.arg.size # last.arg.before.dims[last.arg.name].size
  /\ \E i \in LastCalls : /\ last.calls[i].prim = "nc_def_dim"
                          /\ last.calls[i].rc = "NC_ENAMEINUSE"

\* C17: close() leaves the dimension list of every Variable the caller holds
\* as it was.
C17_DimensionsSurviveClose ==
  [][last'.op = "close" =>
       \A k \in USlots :
         uvars[k] # NoVar =>
           /\ uvars'[k] # NoVar
           /\ Variable_get_dimensions(uvars'[k]) = Variable_get_dimensions(uvars[k])]_vars

\* C17, the case: the File was closed while the caller held a Variable of it
\* with a dimension list.
C17_Witness ==
  /\ last.op = "close" /\ last.result = "ok"
  /\ \E k \in USlots : /\ uvars[k] # NoVar /\ uvars[k].h = last.h
                       /\ Len(Variable_get_dimensions(uvars[k])) >= 2

\* C18 as stated: a read or write that fails the type check has called
\* nc_enddef before and left the file in data mode.
C18_DataModeBeforeTypeCheck ==
  (last.op \in TransferOps /\ last.result = "type_mismatch"
   /\ last.wasOpen /\ ValidId(store, handles[last.h].id))
    => /\ store.mode = "data"
       /\ last.calls # <<>> /\ last.calls[1].prim = "nc_enddef"

\* C18, amended: a hyperslab read or write checks the element type first: one
\* that fails the check makes no library call and leaves the file as it was,
\* and one that reaches nc_put_vara / nc_get_vara called nc_enddef before it.
C18_TypeCheckBeforeDataMode ==
  [][last'.op \in TransferOps =>
       /\ last'.result = "type_mismatch" => (last'.calls = <<>> /\ store' = store)
       /\ \A i \in 1..Len(last'.calls) :
            last'.calls[i].prim \in TransferPrims =>
              /\ i = 2
              /\ last'.calls[1].prim = "nc_enddef"
              /\ last'.result # "type_mismatch"]_vars

\* C18, the case: a write of the wrong element type on an open file that was,
\* and stays, in define mode.
C18_Witness ==
  /\ last.op = "write" /\ last.result = "type_mismatch"
  /\ last.wasOpen /\ ValidId(store, handles[last.h].id)
  /\ store.mode = "define"

\* C19: after an add_dimension or add_variable, failed or not, the catalog of
\* the File holds a dimension or variable name exactly when the open file
\* holds one.
C19_CatalogMatchesStore ==
  (last.op \in {"add_dimension", "add_variable"} /\ last.wasOpen
   /\ ValidId(store, file.id))
    => /\ DOMAIN file.dims = DimNamesOf(store)
       /\ DOMAIN file.vars = VarNamesOf(store)

\* C20: nc_close is only called with the id of an open file.
C20_CloseOnlyOpenIds ==
  \A i \in LastCalls :
    last.calls[i].prim = "nc_close" => last.calls[i].mode # "none"

\* C12: a whole-array read of the variable that the whole-array write before
\* it wrote, both returning normally, gives back the written buffer.
C12_WholeArrayRoundTrip ==
  (last.op = "read_all" /\ last.result = "ok" /\ last.arg.written # <<>>)
    => last.buf = last.arg.written

\* C16: in a File opened again after its close, has_group is true at each
\* level exactly for the names of the child groups the file holds there, and
\* the child-group names are those of the closed File.
C16_GroupsSurviveReopen ==
  (last.op = "reopen" /\ last.result = "ok") =>
    /\ pc = "running"
    /\ Group_get_group_names(file, <<>>) = Group_get_group_names(last.arg.before, <<>>)
    /\ \A n \in GroupNames :
         /\ Group_has_group(file, <<>>, n) <=> n \in ChildrenOf(store, 0)
         /\ \A g \in Group_get_group_names(last.arg.before, <<>>) :
              Group_has_group(file, <<g>>, n)
                <=> Group_has_group(last.arg.before, <<g>>, n)

\* C21: when a File was made by create or open, the buffer of
\* parse_variables had room for the id of every variable of the file, the
\* program goes on and the catalog holds one Variable per variable of the
\* file.
C21_VarIdBufferHasRoom ==
  (last.op \in AcquireOps /\ last.result = "ok") =>
    /\ ~VarIdBufferOverflow(store)
    /\ pc = "running"
    /\ DOMAIN file.vars = VarNamesOf(store)

ReadOps   == {"read", "read_all"}
PutPrims  == {"nc_put_var", "nc_put_vara"}

\* C22: a read, hyperslab or whole-array, calls no nc_put primitive and
\* leaves the data of every variable of the file as it was.
C22_ReadLeavesDataAlone ==
  last.op \in ReadOps =>
    /\ store.data = last.arg.before
    /\ \A i \in LastCalls : last.calls[i].prim \notin PutPrims

AddOps == {"add_dimension", "add_variable"}

\* C23: an add_dimension or add_variable that returns normally called
\* nc_redef, its nc_def primitive, nc_enddef and nc_sync in this order, and
\* leaves the file open and in data mode.
C23_AddReturnsInDataMode ==
  (last.op \in AddOps /\ last.result = "ok") =>
    /\ store.open /\ store.mode = "data"
    /\ Len(last.calls) = 4
    /\ last.calls[1].prim = "nc_redef"
    /\ last.calls[2].prim \in DefinitionPrims /\ last.calls[2].rc = "NC_NOERR"
    /\ last.calls[2].mode = "define"
    /\ last.calls[3].prim = "nc_enddef" /\ last.calls[3].rc = "NC_NOERR"
    /\ last.calls[4].prim = "nc_sync" /\ last.calls[4].rc = "NC_NOERR"
    /\ last.calls[4].mode = "data"

\* C23, the case: an add_variable that returned normally on a file that was
\* in define mode when it was called.
C23_Witness ==
  /\ last.op = "add_variable" /\ last.result = "ok"
  /\ last.calls[1].mode = "define"

\* Dimension d of a Variable's list agrees with the entry of the same id in
\* the catalog of File f.
AgreesWithCatalog(f, d) ==
  \A m \in DOMAIN f.dims :
    f.dims[m].id = d.id =>
      /\ d.name = f.dims[m].name
      /\ d.size = f.dims[m].size
      /\ d.unlimited = f.dims[m].unlimited

\* C24: when add_variable returned normally or a File was made by open, every
\* Dimension of every Variable of the File's catalog agrees with the
\* catalog's entry of the same id in name, size and unlimited flag.
C24_VariableDimsAgreeWithCatalog ==
  (last.op \in {"add_variable"} \cup AcquireOps /\ last.result = "ok"
   /\ pc = "running") =>
    \A n \in DOMAIN file.vars :
      \A i \in 1..Len(Variable_get_dimensions(file.vars[n])) :
        AgreesWithCatalog(file, Variable_get_dimensions(file.vars[n])[i])

\* C25: no File object of netcdf++.h calls nc_close after an nc_close it made
\* returned normally, and a File object that was destroyed with no failure
\* of the library has called nc_close once.
C25_ClosedOnce ==
  \A h \in Handles :
    /\ handles[h].late = 0
    /\ (handles[h].acquired /\ ~handles[h].alive /\ nfaults = 0)
         => handles[h].ncClose = 1

=============================================================================
